---- MODULE Spec2Model ----
(***************************************************************************)
(* Model of scripts/generate-api-docs.py: the APIDocumentationGenerator    *)
(* class and main().                                                       *)
(*                                                                         *)
(* Text is a sequence of tokens.  Punctuation that the code searches for   *)
(* character by character (hash, backtick, space, slash, newline) is one   *)
(* token per character; a word ("Overview", "GET", "http") is one token.   *)
(* Python indices are kept 0-based, as in the code.                        *)
(***************************************************************************)
EXTENDS Integers, Sequences, FiniteSets, TLC

VARIABLES
    pc,                 \* position of the run
    template_exists,    \* template_path.exists()
    template_content,   \* text of the template file
    validation_report,  \* self.validation_report
    success,            \* return value of generate_api_documentation, as a 0/1 element sequence
    out_dir_exists,     \* whether self.output_dir exists on disk
    fs,                 \* content of each file on disk, as a 0/1 element sequence
    io_log,             \* file system and console effects of the run, in order
    exit_code,          \* argument of sys.exit, as a 0/1 element sequence
    fn_result           \* value returned by the function under test

vars == <<pc, template_exists, template_content, validation_report, success,
          out_dir_exists, fs, io_log, exit_code, fn_result>>

(***************************************************************************)
(* Python str operations on token sequences                                *)
(***************************************************************************)

\* s[a:b] for 0 <= a, 0 <= b
Slice(s, a, b) ==
    LET e == IF b > Len(s) THEN Len(s) ELSE b
    IN  IF a >= e THEN <<>> ELSE SubSeq(s, a + 1, e)

\* s.startswith(prefix)
StartsWith(s, prefix) ==
    /\ Len(prefix) <= Len(s)
    /\ SubSeq(s, 1, Len(prefix)) = prefix

\* s.find(sub, start): lowest 0-based index >= start where sub occurs, else -1
Find(s, sub, start) ==
    LET hits == { i \in start .. (Len(s) - Len(sub)) :
                    SubSeq(s, i + 1, i + Len(sub)) = sub }
    IN  IF hits = {} THEN -1
        ELSE CHOOSE i \in hits : \A j \in hits : i <= j

\* sub in s
Contains(s, sub) == Find(s, sub, 0) # -1

Whitespace == {" ", "\n"}

RECURSIVE LStrip(_)
LStrip(s) ==
    IF s # <<>> /\ Head(s) \in Whitespace THEN LStrip(Tail(s)) ELSE s

RECURSIVE RStrip(_)
RStrip(s) ==
    IF s # <<>> /\ s[Len(s)] \in Whitespace
    THEN RStrip(SubSeq(s, 1, Len(s) - 1)) ELSE s

\* s.strip()
Strip(s) == RStrip(LStrip(s))

\* s.split(sep) for a one-character separator: always at least one part
RECURSIVE Split(_, _)
Split(s, sep) ==
    LET i == Find(s, <<sep>>, 0)
    IN  IF i = -1 THEN <<s>>
        ELSE <<Slice(s, 0, i)>> \o Split(Slice(s, i + 1, Len(s)), sep)

\* sep.join(parts)
RECURSIVE Join(_, _)
Join(parts, sep) ==
    IF parts = <<>> THEN <<>>
    ELSE IF Len(parts) = 1 THEN parts[1]
    ELSE parts[1] \o <<sep>> \o Join(Tail(parts), sep)

\* s.replace(old, new): non-overlapping occurrences, left to right
RECURSIVE Replace(_, _, _)
Replace(s, old, new) ==
    LET i == Find(s, old, 0)
    IN  IF i = -1 THEN s
        ELSE Slice(s, 0, i) \o new
             \o Replace(Slice(s, i + Len(old), Len(s)), old, new)

\* concatenation of a sequence of strings
RECURSIVE Concat(_)
Concat(ss) == IF ss = <<>> THEN <<>> ELSE Head(ss) \o Concat(Tail(ss))

(***************************************************************************)
(* Outcome of a call: a returned value or a raised exception               *)
(***************************************************************************)
Returned(v) == [raised |-> FALSE, value |-> <<v>>, exc |-> <<>>]
Raised(e) == [raised |-> TRUE, value |-> <<>>, exc |-> e]

\* d[key].append(item): KeyError(key) when the dict has no such key
DictAppend(d, key, item) ==
    IF key \in DOMAIN d
    THEN Returned([d EXCEPT ![key] = Append(@, item)])
    ELSE Raised(<<"'", key, "'">>)

(***************************************************************************)
(* validate_template_structure                                             *)
(***************************************************************************)
required_sections ==
    <<"Overview", "Authentication", "Endpoints",
      "Request/Response Examples", "Error Codes">>

SectionHeader(section) == <<"#", "#", " ", section>>

MissingSection(section) == <<"Missing required section: ", section>>

\* the dict literal the function starts from
validation_result_init ==
    [valid |-> TRUE, errors |-> <<>>, sections_found |-> <<>>]

\* CheckSection that records the missing section but leaves valid alone
CheckSectionNoFlag(result, section, content) ==
    IF Contains(content, SectionHeader(section))
    THEN [result EXCEPT !.sections_found = Append(@, section)]
    ELSE [result EXCEPT !.errors = Append(@, MissingSection(section))]

\* one iteration of the loop over required_sections
CheckSection(result, section, content) ==
    IF Contains(content, SectionHeader(section))
    THEN [result EXCEPT !.sections_found = Append(@, section)]
    ELSE [result EXCEPT !.errors = Append(@, MissingSection(section)),
                        !.valid = FALSE]

RECURSIVE CheckSections(_, _, _)
CheckSections(result, sections, content) ==
    IF sections = <<>> THEN result
    ELSE CheckSections(CheckSection(result, Head(sections), content),
                       Tail(sections), content)

\* the backtick character
Backtick == "BACKTICK"

Fence(tag) == <<Backtick, Backtick, Backtick, tag>>

NoCodeExamples(content) ==
    /\ ~Contains(content, Fence("http"))
    /\ ~Contains(content, Fence("json"))

NoMethodDefinitions(content) ==
    /\ ~Contains(content, <<"GET", " ", "/">>)
    /\ ~Contains(content, <<"POST", " ", "/">>)

validate_template_structure(content) ==
    LET r1 == CheckSections(validation_result_init, required_sections, content)
        s2 == IF NoCodeExamples(content)
              THEN DictAppend(r1, "warnings",
                              <<"No HTTP or JSON code examples found">>)
              ELSE Returned(r1)
        s3 == IF s2.raised THEN s2
              ELSE IF NoMethodDefinitions(content)
              THEN DictAppend(s2.value[1], "warnings",
                              <<"No HTTP method definitions found">>)
              ELSE s2
    IN  s3

(***************************************************************************)
(* _extract_error_codes, _extract_authentication_info                      *)
(***************************************************************************)
H3(name) == <<"#", "#", "#", " ", name>>

\* one of the two blocks of _extract_error_codes: the text appended to
\* error_section for the subsection start_marker, whose known next marker is
\* next_marker
ErrorSubsection(content, start_marker, next_marker) ==
    IF Contains(content, start_marker)
    THEN LET start_idx == Find(content, start_marker, 0)
             e1 == Find(content, next_marker, start_idx)
             end_idx == IF e1 = -1
                        THEN Find(content, <<"#", "#">>, start_idx + 1)
                        ELSE e1
         IN  IF start_idx # -1 /\ end_idx # -1
             THEN Strip(Slice(content, start_idx, end_idx)) \o <<"\n", "\n">>
             ELSE <<>>
    ELSE <<>>

error_section_header == <<"#", " ", "Error Codes", "\n", "\n">>

_extract_error_codes(content) ==
    error_section_header
    \o ErrorSubsection(content, H3("HTTP Status Codes"),
                       H3("Application Error Codes"))
    \o ErrorSubsection(content, H3("Application Error Codes"),
                       H3("Rate Limiting"))

auth_section_header == <<"#", " ", "Authentication", "\n", "\n">>

_extract_authentication_info(content) ==
    auth_section_header
    \o IF Contains(content, SectionHeader("Authentication"))
       THEN LET start_idx == Find(content, SectionHeader("Authentication"), 0)
                end_idx == Find(content, <<"#", "#">>, start_idx + 1)
            IN  IF start_idx # -1 /\ end_idx # -1
                THEN Strip(Slice(content, start_idx, end_idx))
                ELSE <<>>
       ELSE <<>>

(***************************************************************************)
(* _generate_api_specification                                             *)
(***************************************************************************)
H4Prefix == <<"#", "#", "#", "#", " ">>

\* the condition that recognises an endpoint header line
IsEndpointLine(line) ==
    /\ StartsWith(Strip(line), H4Prefix)
    /\ \/ Contains(line, <<"GET", " ", "/">>)
       \/ Contains(line, <<"POST", " ", "/">>)

\* the record built from the words of an endpoint header line
NewEndpoint(parts) ==
    [method |-> parts[1],
     path |-> parts[2],
     description |-> IF Len(parts) > 2
                     THEN Join(SubSeq(parts, 3, Len(parts)), " ")
                     ELSE <<>>,
     parameters |-> <<>>,
     examples |-> <<>>]

\* the inner while loop: lines[j], lines[j+1], ... up to the first line that
\* starts with a fence, or the end of input (j is 0-based)
RECURSIVE ExampleLines(_, _)
ExampleLines(lines, j) ==
    IF j < Len(lines) /\ ~StartsWith(Strip(lines[j + 1]), <<Backtick, Backtick, Backtick>>)
    THEN <<lines[j + 1]>> \o ExampleLines(lines, j + 1)
    ELSE <<>>

\* the body of the for loop for line i (0-based); st holds spec["endpoints"]
\* and current_endpoint (a 0/1 element sequence, empty for None)
ScanLine(st, lines, i) ==
    LET line == lines[i + 1]
    IN  IF IsEndpointLine(line)
        THEN LET eps == IF st.current_endpoint # <<>>
                        THEN Append(st.endpoints, st.current_endpoint[1])
                        ELSE st.endpoints
                 method_path == Strip(Replace(line, H4Prefix, <<>>))
                 parts == Split(method_path, " ")
             IN  [endpoints |-> eps,
                  current_endpoint |->
                      IF Len(parts) >= 2 THEN <<NewEndpoint(parts)>>
                      ELSE st.current_endpoint]
        ELSE IF st.current_endpoint # <<>>
                /\ StartsWith(Strip(line), Fence("http"))
        THEN LET example_lines == ExampleLines(lines, i + 1)
             IN  IF example_lines # <<>>
                 THEN [st EXCEPT !.current_endpoint[1].examples =
                          Append(@, [type |-> "http",
                                     content |-> Join(example_lines, "\n")])]
                 ELSE st
        ELSE st

RECURSIVE ScanLines(_, _, _)
ScanLines(st, lines, i) ==
    IF i >= Len(lines) THEN st
    ELSE ScanLines(ScanLine(st, lines, i), lines, i + 1)

_generate_api_specification(content) ==
    LET lines == Split(content, "\n")
        st == ScanLines([endpoints |-> <<>>, current_endpoint |-> <<>>],
                        lines, 0)
    IN  [api_name |-> "Smart Medical System API",
         version |-> "1.0.0",
         base_url |-> "https://api.smart-medical-system.com/v1",
         authentication |-> "JWT Bearer Token",
         endpoints |-> IF st.current_endpoint # <<>>
                       THEN Append(st.endpoints, st.current_endpoint[1])
                       ELSE st.endpoints,
         error_codes |-> <<>>,
         generated_at |-> "now"]

(***************************************************************************)
(* The report record and the files of a run                                *)
(***************************************************************************)
EndpointsFile == "endpoints.md"
ErrorCodesFile == "error-codes.md"
AuthFile == "authentication.md"
SpecFile == "api-specification.json"
ReportFile == "validation-report.json"

OutputFiles == {EndpointsFile, ErrorCodesFile, AuthFile, SpecFile}
Files == OutputFiles \cup {ReportFile}

\* self.validation_report as __init__ leaves it
validation_report_init ==
    [timestamp |-> "now",
     status |-> "pending",
     errors |-> <<>>,
     warnings |-> <<>>,
     files_generated |-> <<>>]

\* the places where the operating system can refuse an operation of
\* generate_api_documentation
FailPoints ==
    {"none", "read", "mkdir", EndpointsFile, ErrorCodesFile, AuthFile, SpecFile}

\* MainDocText that fills in the version placeholder
MainDocTextSubstituted(content) == Replace(content, <<"{{version}}">>, <<"1.0.0">>)

\* the text written to endpoints.md
MainDocText(content) == content

(***************************************************************************)
(* generate_api_documentation, as a sequence of steps over a record w:     *)
(* report, fs, dir and log are the state the call changes, done says that  *)
(* the call has returned and ret is its return value.                      *)
(***************************************************************************)

\* the except clause
Handler(w, e) ==
    [w EXCEPT !.report.errors = Append(@, <<"Generation error: ">> \o e),
              !.report.status = "failed",
              !.done = TRUE,
              !.ret = FALSE]

\* template_path.exists()
StepExists(w, exists) ==
    IF ~exists
    THEN [w EXCEPT !.report.errors = Append(@, <<"Template file not found: ", "template_path">>),
                   !.done = TRUE,
                   !.ret = FALSE]
    ELSE w

\* open(template_path) and f.read()
StepRead(w, fail) ==
    IF w.done THEN w
    ELSE IF fail = "read"
    THEN Handler([w EXCEPT !.log = Append(@, "error:read")], <<"OSError">>)
    ELSE [w EXCEPT !.log = Append(@, "read:template")]

\* ValidationFailed that never stops generation
ValidationNeverFailed(validation) == FALSE

\* the test that stops generation after validation
ValidationFailed(validation) == ~validation.valid

\* the call of validate_template_structure and the test of its result
StepValidate(w, v) ==
    IF w.done THEN w
    ELSE IF v.raised THEN Handler(w, v.exc)
    ELSE IF ValidationFailed(v.value[1])
    THEN [w EXCEPT !.report.errors = @ \o v.value[1].errors,
                   !.report.status = "failed",
                   !.done = TRUE,
                   !.ret = FALSE]
    ELSE w

\* self.output_dir.mkdir(parents=True, exist_ok=True)
StepMkdir(w, fail) ==
    IF w.done THEN w
    ELSE IF fail = "mkdir"
    THEN Handler([w EXCEPT !.log = Append(@, "error:mkdir")], <<"OSError">>)
    ELSE [w EXCEPT !.dir = TRUE, !.log = Append(@, "mkdir")]

\* open(file, 'w'), write, and the append to files_generated
StepWrite(w, fail, file, text) ==
    IF w.done THEN w
    ELSE IF fail = file
    THEN Handler([w EXCEPT !.log = Append(@, "error:write:" \o file)], <<"OSError">>)
    ELSE [w EXCEPT !.fs[file] = <<text>>,
                   !.log = Append(@, "write:" \o file),
                   !.report.files_generated = Append(@, file)]

\* the update of the report after the files are written
StepFinish(w, v) ==
    IF w.done THEN w
    ELSE LET w1 == [w EXCEPT !.report.status = "success"]
         IN  IF "warnings" \notin DOMAIN v.value[1]
             THEN Handler(w1, <<"'", "warnings", "'">>)
             ELSE [w1 EXCEPT
                     !.report = [k \in DOMAIN w1.report \cup {"sections_validated"} |->
                                   IF k = "sections_validated"
                                   THEN v.value[1].sections_found
                                   ELSE IF k = "warnings"
                                   THEN w1.report.warnings \o v.value[1]["warnings"]
                                   ELSE w1.report[k]],
                     !.done = TRUE,
                     !.ret = TRUE]

generate_api_documentation(w0, exists, content, fail) ==
    LET v == validate_template_structure(content)
        w1 == StepExists(w0, exists)
        w2 == StepRead(w1, fail)
        w3 == StepValidate(w2, v)
        w4 == StepMkdir(w3, fail)
        w5 == StepWrite(w4, fail, EndpointsFile, MainDocText(content))
        w6 == StepWrite(w5, fail, ErrorCodesFile, _extract_error_codes(content))
        w7 == StepWrite(w6, fail, AuthFile, _extract_authentication_info(content))
        w8 == StepWrite(w7, fail, SpecFile, _generate_api_specification(content))
    IN  StepFinish(w8, v)

(***************************************************************************)
(* Templates                                                               *)
(***************************************************************************)
H2Line(section) == SectionHeader(section) \o <<"\n">>

\* the texts obtained by keeping any subset of the elements, in order
Templates(elems) ==
    { Concat([i \in 1 .. Len(elems) |-> IF i \in S THEN elems[i] ELSE <<>>]) :
        S \in SUBSET (1 .. Len(elems)) }

MainElems ==
    <<H2Line("Overview"),
      H2Line("Authentication"),
      H2Line("Endpoints"),
      H4Prefix \o <<"GET", " ", "/", "patients", " ", "list", "\n">>,
      Fence("http") \o <<"\n", "body", "\n", Backtick, Backtick, Backtick, "\n">>,
      H2Line("Request/Response Examples"),
      H2Line("Error Codes"),
      <<"{{version}}", "\n">>>>

OldText == <<"old">>

\* the output directory before the run: absent, empty, or holding the files
\* of an earlier run
InitialDisks ==
    { [dir |-> FALSE, fs |-> [f \in Files |-> <<>>]],
      [dir |-> TRUE, fs |-> [f \in Files |-> <<>>]],
      [dir |-> TRUE, fs |-> [f \in Files |-> <<OldText>>]] }

(***************************************************************************)
(* main                                                                    *)
(***************************************************************************)
Init ==
    /\ pc = "generate"
    /\ template_exists \in BOOLEAN
    /\ template_content \in (IF template_exists THEN Templates(MainElems) ELSE {<<>>})
    /\ validation_report = validation_report_init
    /\ success = <<>>
    /\ \E d \in InitialDisks : out_dir_exists = d.dir /\ fs = d.fs
    /\ io_log = <<>>
    /\ exit_code = <<>>
    /\ fn_result = <<>>

\* success = generator.generate_api_documentation(args.template)
GenerateDocs ==
    /\ pc = "generate"
    /\ \E fail \in FailPoints :
         LET w == generate_api_documentation(
                      [report |-> validation_report, fs |-> fs,
                       dir |-> out_dir_exists, log |-> io_log,
                       done |-> FALSE, ret |-> FALSE],
                      template_exists, template_content, fail)
         IN  /\ validation_report' = w.report
             /\ fs' = w.fs
             /\ out_dir_exists' = w.dir
             /\ io_log' = Append(w.log, "return:generate")
             /\ success' = <<w.ret>>
    /\ pc' = "save"
    /\ UNCHANGED <<template_exists, template_content, exit_code, fn_result>>

\* generator.save_validation_report(args.report_file)
SaveReport ==
    /\ pc = "save"
    /\ \E fail \in BOOLEAN :
         IF fail
         THEN /\ io_log' = io_log \o <<"call:save", "error:write:" \o ReportFile,
                                       "print:save_error">>
              /\ fs' = fs
         ELSE /\ io_log' = io_log \o <<"call:save", "write:" \o ReportFile>>
              /\ fs' = [fs EXCEPT ![ReportFile] = <<validation_report>>]
    /\ pc' = "summary"
    /\ UNCHANGED <<template_exists, template_content, validation_report,
                   success, out_dir_exists, exit_code, fn_result>>

\* PrintSummary that also records a warning in the report
PrintSummaryTouchingReport ==
    /\ pc = "summary"
    /\ io_log' = Append(io_log, "print:summary")
    /\ validation_report' = [validation_report EXCEPT !.warnings = Append(@, <<"printed">>)]
    /\ pc' = "exit"
    /\ UNCHANGED <<template_exists, template_content,
                   success, out_dir_exists, fs, exit_code, fn_result>>

\* generator.print_summary()
PrintSummary ==
    /\ pc = "summary"
    /\ io_log' = Append(io_log, "print:summary")
    /\ pc' = "exit"
    /\ UNCHANGED <<template_exists, template_content, validation_report,
                   success, out_dir_exists, fs, exit_code, fn_result>>

\* sys.exit(0 if success else 1)
Exit ==
    /\ pc = "exit"
    /\ exit_code' = <<IF success[1] THEN 0 ELSE 1>>
    /\ io_log' = Append(io_log, "exit")
    /\ pc' = "done"
    /\ UNCHANGED <<template_exists, template_content, validation_report,
                   success, out_dir_exists, fs, fn_result>>

Next == GenerateDocs \/ SaveReport \/ PrintSummary \/ Exit

Spec == Init /\ [][Next]_vars

(***************************************************************************)
(* validate_template_structure on its own                                  *)
(***************************************************************************)
FencedBlock(tag) ==
    Fence(tag) \o <<"\n", "body", "\n", Backtick, Backtick, Backtick, "\n">>

ValidateElems ==
    <<H2Line("Overview"),
      H2Line("Authentication"),
      H2Line("Endpoints"),
      H4Prefix \o <<"GET", " ", "/", "patients", "\n">>,
      H4Prefix \o <<"POST", " ", "/", "patients", "\n">>,
      H4Prefix \o <<"PUT", " ", "/", "patients", "\n">>,
      FencedBlock("http"),
      FencedBlock("json"),
      FencedBlock("python"),
      H2Line("Request/Response Examples"),
      H2Line("Error Codes")>>

\* the variables that only main uses
IdleMain ==
    /\ template_exists = TRUE
    /\ validation_report = validation_report_init
    /\ success = <<>>
    /\ out_dir_exists = FALSE
    /\ fs = [f \in Files |-> <<>>]
    /\ io_log = <<>>
    /\ exit_code = <<>>
    /\ fn_result = <<>>

InitValidate ==
    /\ pc = "call_validate"
    /\ template_content \in Templates(ValidateElems)
    /\ IdleMain

CallValidate ==
    /\ pc = "call_validate"
    /\ fn_result' = validate_template_structure(template_content)
    /\ pc' = "returned_validate"
    /\ UNCHANGED <<template_exists, template_content, validation_report,
                   success, out_dir_exists, fs, io_log, exit_code>>

NextValidate == CallValidate

SpecValidate == InitValidate /\ [][NextValidate]_vars

(***************************************************************************)
(* _extract_error_codes and _extract_authentication_info on their own      *)
(***************************************************************************)
MaxChunks == 4

ExtractChunks ==
    { H3("HTTP Status Codes") \o <<"\n">>,
      H3("Application Error Codes") \o <<"\n">>,
      H3("Rate Limiting") \o <<"\n">>,
      H2Line("Authentication"),
      H2Line("Endpoints"),
      H4Prefix \o <<"Details", "\n">>,
      <<"text", "\n">> }

\* the sequences of at most n elements of S
SeqsUpTo(S, n) == UNION { [1 .. k -> S] : k \in 0 .. n }

InitExtract ==
    /\ pc = "call_extract"
    /\ template_content \in { Concat(cs) : cs \in SeqsUpTo(ExtractChunks, MaxChunks) }
    /\ IdleMain

CallExtractErrorCodes ==
    /\ pc = "call_extract"
    /\ fn_result' = _extract_error_codes(template_content)
    /\ pc' = "returned_error_codes"
    /\ UNCHANGED <<template_exists, template_content, validation_report,
                   success, out_dir_exists, fs, io_log, exit_code>>

CallExtractAuthentication ==
    /\ pc = "call_extract"
    /\ fn_result' = _extract_authentication_info(template_content)
    /\ pc' = "returned_auth"
    /\ UNCHANGED <<template_exists, template_content, validation_report,
                   success, out_dir_exists, fs, io_log, exit_code>>

NextExtract == CallExtractErrorCodes \/ CallExtractAuthentication

SpecExtract == InitExtract /\ [][NextExtract]_vars

(***************************************************************************)
(* _generate_api_specification on its own                                  *)
(***************************************************************************)
MaxLines == 5

ApiLines ==
    { H4Prefix \o <<"GET", " ", "/", "patients", " ", "list", " ", "patients">>,
      H4Prefix \o <<"POST", " ", "/", "patients", " ", "create">>,
      H4Prefix \o <<"PUT", " ", "/", "patients", " ", "update">>,
      Fence("http"),
      <<Backtick, Backtick, Backtick>>,
      <<"GET", " ", "/", "patients">> }

\* each line followed by a newline
RECURSIVE Unlines(_)
Unlines(ls) == IF ls = <<>> THEN <<>> ELSE Head(ls) \o <<"\n">> \o Unlines(Tail(ls))

InitApiSpec ==
    /\ pc = "call_api_spec"
    /\ template_content \in { Unlines(ls) : ls \in SeqsUpTo(ApiLines, MaxLines) }
    /\ IdleMain

CallGenerateApiSpecification ==
    /\ pc = "call_api_spec"
    /\ fn_result' = _generate_api_specification(template_content)
    /\ pc' = "returned_api_spec"
    /\ UNCHANGED <<template_exists, template_content, validation_report,
                   success, out_dir_exists, fs, io_log, exit_code>>

NextApiSpec == CallGenerateApiSpecification

SpecApiSpec == InitApiSpec /\ [][NextApiSpec]_vars

(***************************************************************************)
(* Properties                                                              *)
(***************************************************************************)
Occurrences(seq, x) == Cardinality({i \in 1 .. Len(seq) : seq[i] = x})

SectionIndex(section) == CHOOSE i \in 1 .. Len(required_sections) : required_sections[i] = section

MissingSections(content) ==
    {i \in 1 .. Len(required_sections) :
        ~Contains(content, SectionHeader(required_sections[i]))}

HasCodeExample(content) ==
    Contains(content, Fence("http")) \/ Contains(content, Fence("json"))

HasMethodToken(content) ==
    Contains(content, <<"GET", " ", "/">>) \/ Contains(content, <<"POST", " ", "/">>)

Logged(entry) == \E i \in 1 .. Len(io_log) : io_log[i] = entry

\* generate_api_documentation has returned
GenerateReturned == pc \in {"save", "summary", "exit", "done"}

\* save_validation_report has returned
SaveReturned == pc \in {"summary", "exit", "done"}

LogCount(entry) == Occurrences(io_log, entry)

LogIndex(entry) == CHOOSE i \in 1 .. Len(io_log) : io_log[i] = entry

\* an operation of generate_api_documentation was refused by the system
GenerationIOError ==
    \/ Logged("error:read")
    \/ Logged("error:mkdir")
    \/ \E f \in OutputFiles : Logged("error:write:" \o f)

\* C1: main exits with 0 whenever the template exists, validation has no
\* issue and every output file is written without error, and with 1
\* otherwise.
C1_ExitCodeReflectsOutcome ==
    pc = "done"
    => (exit_code = <<0>>
        <=> /\ template_exists
            /\ MissingSections(template_content) = {}
            /\ HasCodeExample(template_content)
            /\ HasMethodToken(template_content)
            /\ ~GenerationIOError)

\* C2: when the template file does not exist or a required section is
\* missing, generate_api_documentation returns False, has neither created the
\* output directory nor written any of the four output files, and
\* files_generated is empty.
C2_NoOutputWithoutValidTemplate ==
    (GenerateReturned
     /\ (~template_exists \/ MissingSections(template_content) # {}))
    => /\ success = <<FALSE>>
       /\ ~Logged("mkdir")
       /\ \A f \in OutputFiles : ~Logged("write:" \o f)
       /\ validation_report.files_generated = <<>>

\* a run whose template lacks a required section, has a code example and a
\* method definition, and whose generation has returned
C2_Witness ==
    /\ pc = "save"
    /\ template_exists
    /\ MissingSections(template_content) # {}
    /\ HasCodeExample(template_content)
    /\ HasMethodToken(template_content)
    /\ success = <<FALSE>>

ExpectedIssueCount(content) ==
    Cardinality(MissingSections(content))
    + (IF HasCodeExample(content) THEN 0 ELSE 1)
    + (IF HasMethodToken(content) THEN 0 ELSE 1)

\* C4: the report saved at the end of a run whose template was read holds
\* one issue for every missing required element: one per missing required
\* section, one when there is no code example, one when there is no method
\* definition; none is lost because another check failed first.
C4_IssuesCollectedExhaustively ==
    (SaveReturned /\ Logged("read:template") /\ Logged("write:" \o ReportFile))
    => LET saved == fs[ReportFile][1]
       IN  /\ \A i \in MissingSections(template_content) :
                 Occurrences(saved.errors, MissingSection(required_sections[i])) = 1
           /\ ExpectedIssueCount(template_content) > 0
              => Len(saved.errors) + Len(saved.warnings)
                 = ExpectedIssueCount(template_content)

\* C5 as stated: every run saves the report exactly once, after
\* generate_api_documentation has returned, then prints the summary, then
\* exits, and the report record is not changed after it was saved.
C5_ReportSavedExactlyOnce ==
    pc = "done"
    => /\ LogCount("write:" \o ReportFile) = 1
       /\ LogCount("return:generate") = 1
       /\ LogCount("print:summary") = 1
       /\ LogIndex("return:generate") < LogIndex("write:" \o ReportFile)
       /\ LogIndex("write:" \o ReportFile) < LogIndex("print:summary")
       /\ LogIndex("print:summary") < LogIndex("exit")
       /\ fs[ReportFile] = <<validation_report>>

\* C5, amended: every run calls save_validation_report exactly once, after
\* generate_api_documentation has returned, then prints the summary, then
\* exits; the report file is written at most once, and exactly once unless
\* the system refuses the write, which is printed; once written, the file
\* holds the report record, which is not changed afterwards.
C5_SaveCalledOnceThenSummaryThenExit ==
    /\ pc = "done"
       => /\ LogCount("call:save") = 1
          /\ LogCount("return:generate") = 1
          /\ LogCount("print:summary") = 1
          /\ LogCount("exit") = 1
          /\ LogIndex("return:generate") < LogIndex("call:save")
          /\ LogIndex("call:save") < LogIndex("print:summary")
          /\ LogIndex("print:summary") < LogIndex("exit")
          /\ LogCount("write:" \o ReportFile) + LogCount("print:save_error") = 1
    /\ ~Logged("call:save") => (~Logged("print:summary") /\ ~Logged("exit"))
    /\ Logged("write:" \o ReportFile)
       => /\ LogIndex("call:save") < LogIndex("write:" \o ReportFile)
          /\ fs[ReportFile] = <<validation_report>>

\* a finished run whose generation failed and whose report was written
C5_Witness ==
    /\ pc = "done"
    /\ success = <<FALSE>>
    /\ Logged("write:" \o ReportFile)
    /\ validation_report.errors # <<>>

\* the comment that records the generation time
TimestampComment == <<"<!-- Generated: ", "now", " -->", "\n">>

\* the template with the placeholders that have a value filled in
WithVariables(content) == Replace(content, <<"{{version}}">>, <<"1.0.0">>)

C10_StatusSettled ==
    SaveReturned
    => /\ validation_report.status # "pending"
       /\ success = <<TRUE>>
          => /\ validation_report.status = "success"
             /\ validation_report.errors = <<>>
             /\ validation_report.files_generated
                = <<EndpointsFile, ErrorCodesFile, AuthFile, SpecFile>>
       /\ success = <<FALSE>>
          => /\ validation_report.status = "failed"
             /\ validation_report.errors # <<>>

(***************************************************************************)
(* Endpoint header lines and fenced blocks, as the documentation of the    *)
(* extracted specification describes them                                  *)
(***************************************************************************)
Methods == {"GET", "POST", "PUT", "DELETE", "PATCH", "HEAD", "OPTIONS"}

\* a line "#### METHOD path [description]"
IsHeaderLine(line) ==
    /\ StartsWith(line, H4Prefix)
    /\ Len(line) >= 8
    /\ line[6] \in Methods
    /\ line[7] = " "
    /\ line[8] # " "

IsFenceLine(line) == StartsWith(line, <<Backtick, Backtick, Backtick>>)

IsHttpOpener(line) == StartsWith(line, Fence("http"))

HeaderLineNumbers(lines) == {i \in 1 .. Len(lines) : IsHeaderLine(lines[i])}

\* the k-th smallest element of a set of numbers
Nth(S, k) == CHOOSE x \in S : Cardinality({y \in S : y < x}) = k - 1

Least(S) == CHOOSE x \in S : \A y \in S : x <= y

\* the line number of the next endpoint header after line h, or one past
\* the last line
SegmentEnd(lines, h) ==
    Least({i \in HeaderLineNumbers(lines) : i > h} \cup {Len(lines) + 1})

\* the http fences opened in the scope of the header at line h
OpenersIn(lines, h) ==
    {l \in (h + 1) .. (SegmentEnd(lines, h) - 1) : IsHttpOpener(lines[l])}

\* the lines between the fence opened at line l and its closing fence
BlockText(lines, l) ==
    LET c == Least({j \in (l + 1) .. Len(lines) : IsFenceLine(lines[j])}
                   \cup {Len(lines) + 1})
    IN  Join(SubSeq(lines, l + 1, c - 1), "\n")

\* fences open with an http fence and close with a bare fence, alternately,
\* and no endpoint header lies inside a block
RECURSIVE CleanFrom(_, _, _)
CleanFrom(lines, i, inBlock) ==
    IF i > Len(lines) THEN ~inBlock
    ELSE IF IsFenceLine(lines[i])
    THEN IF inBlock
         THEN ~IsHttpOpener(lines[i]) /\ CleanFrom(lines, i + 1, FALSE)
         ELSE IsHttpOpener(lines[i]) /\ CleanFrom(lines, i + 1, TRUE)
    ELSE IF IsHeaderLine(lines[i]) /\ inBlock THEN FALSE
    ELSE CleanFrom(lines, i + 1, inBlock)

\* the words of a header line after the method
PathOf(line) == Split(SubSeq(line, 8, Len(line)), " ")[1]

\* C6: the specification holds one endpoint record per endpoint header
\* line "#### METHOD path [description]", in document order, the last one
\* appended at the end of input; every http fenced block after a header
\* yields exactly one example on the most recent header before it, whose
\* content is the lines between the opening and the closing fence, and an
\* endpoint without such a block has no example.
C6_OneRecordPerHeaderLine ==
    LET lines == Split(template_content, "\n")
        H == HeaderLineNumbers(lines)
    IN  (pc = "returned_api_spec" /\ CleanFrom(lines, 1, FALSE))
        => /\ Len(fn_result.endpoints) = Cardinality(H)
           /\ \A k \in 1 .. Cardinality(H) :
                 LET h == Nth(H, k)
                     e == fn_result.endpoints[k]
                     O == OpenersIn(lines, h)
                 IN  /\ e.method = <<lines[h][6]>>
                     /\ e.path = PathOf(lines[h])
                     /\ Len(e.examples) = Cardinality(O)
                     /\ \A j \in 1 .. Cardinality(O) :
                           e.examples[j] = [type |-> "http",
                                            content |-> BlockText(lines, Nth(O, j))]

\* C7: a header line for any of the seven methods closes the current
\* endpoint, so no endpoint record holds more examples than there are http
\* fences between a header line of its method and path and the next header
\* line; and the method of every record is one of the seven.
C7_NoExampleAcrossHeader ==
    LET lines == Split(template_content, "\n")
        H == HeaderLineNumbers(lines)
    IN  pc = "returned_api_spec"
        => \A k \in 1 .. Len(fn_result.endpoints) :
              LET e == fn_result.endpoints[k]
              IN  /\ \E m \in Methods : e.method = <<m>>
                  /\ \E h \in H :
                        /\ e.method = <<lines[h][6]>>
                        /\ e.path = PathOf(lines[h])
                        /\ Len(e.examples) <= Cardinality(OpenersIn(lines, h))

(***************************************************************************)
(* Sections of the template, as the documentation of the extracted         *)
(* documents describes them                                                *)
(***************************************************************************)
RECURSIVE HashRun(_, _)
HashRun(content, p) ==
    IF p < Len(content) /\ content[p + 1] = "#"
    THEN 1 + HashRun(content, p + 1) ELSE 0

\* the level of the header that starts at 0-based position p, or 0
HeaderLevelAt(content, p) ==
    LET n == HashRun(content, p)
    IN  IF /\ (p = 0 \/ content[p] = "\n")
           /\ n >= 1
           /\ p + n < Len(content)
           /\ content[p + n + 1] = " "
        THEN n ELSE 0

\* the positions after start where the section of that level ends: the known
\* next marker (none when empty) or a header of the same or a higher level
SectionEnds(content, start, level, next_marker) ==
    {p \in (start + 1) .. (Len(content) - 1) :
        \/ next_marker # <<>> /\ StartsWith(Slice(content, p, Len(content)), next_marker)
        \/ HeaderLevelAt(content, p) \in 1 .. level}

HasSectionEnd(content, marker, level, next_marker) ==
    \/ ~Contains(content, marker)
    \/ SectionEnds(content, Find(content, marker, 0), level, next_marker) # {}

SectionText(content, marker, level, next_marker) ==
    LET start == Find(content, marker, 0)
    IN  Strip(Slice(content, start,
                    Least(SectionEnds(content, start, level, next_marker))))

ErrorPart(content, marker, next_marker) ==
    IF Contains(content, marker)
    THEN SectionText(content, marker, 3, next_marker) \o <<"\n", "\n">>
    ELSE <<>>

\* C8: for each extracted subsection, an absent start marker contributes
\* nothing beyond the fixed header, and a present one contributes exactly the
\* trimmed text from the marker to the nearest of the known next marker and
\* the next header of the same or a higher level.
C8_SectionSpan ==
    /\ (/\ pc = "returned_error_codes"
        /\ HasSectionEnd(template_content, H3("HTTP Status Codes"), 3,
                         H3("Application Error Codes"))
        /\ HasSectionEnd(template_content, H3("Application Error Codes"), 3,
                         H3("Rate Limiting")))
       => fn_result = error_section_header
                      \o ErrorPart(template_content, H3("HTTP Status Codes"),
                                   H3("Application Error Codes"))
                      \o ErrorPart(template_content, H3("Application Error Codes"),
                                   H3("Rate Limiting"))
    /\ (/\ pc = "returned_auth"
        /\ HasSectionEnd(template_content, SectionHeader("Authentication"), 2, <<>>))
       => fn_result = auth_section_header
                      \o IF Contains(template_content, SectionHeader("Authentication"))
                         THEN SectionText(template_content,
                                          SectionHeader("Authentication"), 2, <<>>)
                         ELSE <<>>

====
